---- MODULE Spec2Model ----
(***************************************************************************)
(* Tracked wallet client (createTrackedWalletClient): a wrapper around a   *)
(* wallet client (signing/broadcast) and a public client (chain reads).    *)
(* Each wrapper call is an async function; its positions are the awaits of *)
(* the source.  The collaborators answer with any value or error.          *)
(***************************************************************************)
EXTENDS Integers, Sequences, FiniteSets, TLC

\* ------------------------------------------------------------------ bounds
\* Nonces (caller-supplied, fetched, decoded and looked-up) range over 0..MaxNonce.
MaxNonce == 1
\* The wall clock (Date.now()) ranges over 0..MaxClock.
MaxClock == 2
\* Transaction list store: fetchTransactions/refresh calls of one behaviour.
MaxFetches == 3
\* Transaction list store: block numbers of scanned transactions range over 1..MaxBlock.
MaxBlock == 2
\* Notifications service: add calls of one behaviour.
MaxAdds == 3

\* ------------------------------------------------------------ value domains
\* The wrapper calls of one behaviour, started in this order.
Calls == {"c1", "c2"}
Earlier(c) == IF c = "c1" THEN {} ELSE {"c1"}
Nonces == 0..MaxNonce
Addresses == {"0xA1", "0xA2"}
Hashes == {"0xh1", "0xh2"}
BroadcastErrors == {"UserRejectedRequest", "InsufficientFunds"}
RpcErrors == {"RpcRequestError"}
LookupErrors == {"TransactionNotFound"}
RecoverErrors == {"InvalidSignature"}

\* The value `undefined` of an Address-typed expression.
NoAddress == ""

\* Account | Address | undefined | null
NoAccount == [kind |-> "undefined", address |-> NoAddress]
NullAccount == [kind |-> "null", address |-> NoAddress]
StrAccount(a) == [kind |-> "string", address |-> a]
ObjAccount(a) == [kind |-> "object", address |-> a]

\* NonceOption | undefined, and the values a caller can pass outside the type.
NoNonce == [kind |-> "undefined", num |-> 0, str |-> ""]
NullNonce == [kind |-> "null", num |-> 0, str |-> ""]
NumNonce(n) == [kind |-> "number", num |-> n, str |-> ""]
StrNonce(s) == [kind |-> "string", num |-> 0, str |-> s]

BlockTags == {"latest", "pending", "earliest", "safe", "finalized"}
OtherStrings == {"newest"}

\* TransactionMetadata | undefined
NoMetadata == [defined |-> FALSE, hasId |-> FALSE, id |-> "", title |-> ""]
EmptyObject == [defined |-> TRUE, hasId |-> FALSE, id |-> "", title |-> ""]
Metadata(hasId, id, title) == [defined |-> TRUE, hasId |-> hasId, id |-> id, title |-> title]

\* A serialized signed transaction: what parseTransaction and
\* recoverTransactionAddress make of it.
Serialized(hasNonce, n, signer) == [hasNonce |-> hasNonce, nonce |-> n, signer |-> signer]
NoSerialized == Serialized(FALSE, 0, NoAddress)

\* Results of the wallet client's operations.
HashResult(h) == [kind |-> "hash", hash |-> h]
Receipt(h, s) == [kind |-> "receipt", transactionHash |-> h, status |-> s]
NoResult == [kind |-> "none"]

TrackedOps == {"writeContract", "sendTransaction", "writeContractSync", "sendTransactionSync"}
RawOps == {"sendRawTransaction", "sendRawTransactionSync"}
SyncOps == {"writeContractSync", "sendTransactionSync", "sendRawTransactionSync"}
Ops == TrackedOps \cup RawOps

\* --------------------------------------------------------------- inputs
\* The account field of a call: omitted, null, an address string, an Account object.
AccountInputs == {NoAccount, NullAccount, StrAccount("0xA1"), ObjAccount("0xA2")}
\* walletClient.account: an Account object or undefined.
WalletAccounts == {NoAccount, ObjAccount("0xA1")}
\* walletClient.chain?.id : a chain id, or 0 for "no chain configured".
WalletChains == {0, 31337}
NonceInputs ==
    {NoNonce, NullNonce} \cup {NumNonce(n) : n \in Nonces}
        \cup {StrNonce(s) : s \in BlockTags \cup OtherStrings}
MetadataInputs == {NoMetadata, Metadata(FALSE, "", "Approve"), Metadata(TRUE, "order-1", "Pay")}
SerializedInputs ==
    {Serialized(TRUE, n, a) : n \in Nonces, a \in {"0xA2", NoAddress}}
        \cup {Serialized(FALSE, 0, "0xA2")}

\* The chain field of a call (a per-call chain override): a chain id, or 0 for omitted.
NoChain == 0
ChainOverrides == {NoChain, 10}

Request(op, account, nonce, metadata, data, chain, serializedTransaction) ==
    [op |-> op, account |-> account, nonce |-> nonce, metadata |-> metadata,
     data |-> data, chain |-> chain, serializedTransaction |-> serializedTransaction]
NoRequest == Request("", NoAccount, NoNonce, NoMetadata, "", NoChain, NoSerialized)

TrackedRequests ==
    {Request(op, a, n, m, "0xdata", ch, NoSerialized) :
        op \in TrackedOps, a \in AccountInputs, n \in NonceInputs, m \in MetadataInputs,
        ch \in ChainOverrides}
RawRequests ==
    {Request(op, NoAccount, NoNonce, m, "", NoChain, s) :
        op \in RawOps, m \in MetadataInputs, s \in SerializedInputs}
Requests == TrackedRequests \cup RawRequests

\* ------------------------------------------------------- pure functions
\* Mutation: every string is taken for a block tag.
isBlockTag_AnyString(value) == value.kind = "string"

\* Mutation: only the two common tags are recognised.
isBlockTag_TwoTags(value) == value.kind = "string" /\ value.str \in {"latest", "pending"}

isBlockTag(value) == value.kind = "string" /\ value.str \in BlockTags

\* Mutation: a missing account resolves to the zero address instead of undefined.
resolveAccountAddress_ZeroAddress(account) ==
    IF account.kind \in {"undefined", "null"} THEN "0x00" ELSE account.address

resolveAccountAddress(account) ==
    IF account.kind \in {"undefined", "null"} THEN NoAddress ELSE account.address

normalizeAccount(account) == IF account.kind = "null" THEN NoAccount ELSE account

\* Mutation: the wallet client's default account wins over the call's account.
AccountOrDefault_PrefersWallet(account, wallet) ==
    IF wallet.account.kind \in {"undefined", "null"} THEN account ELSE wallet.account

\* args.account ?? walletClient.account
AccountOrDefault(account, wallet) ==
    IF account.kind \in {"undefined", "null"} THEN wallet.account ELSE account

\* Mutation: the default tag is 'latest'.
NonceBlockTag_DefaultLatest(nonceOption) ==
    IF isBlockTag(nonceOption) THEN nonceOption.str ELSE "latest"

\* resolveNonce: the block tag of the getTransactionCount request.
NonceBlockTag(nonceOption) == IF isBlockTag(nonceOption) THEN nonceOption.str ELSE "pending"

\* Mutation: the normalised account is forwarded (null becomes undefined).
RestArgs_NormalizedAccount(request) ==
    [account |-> normalizeAccount(request.account), data |-> request.data,
     chain |-> request.chain]

\* const {metadata, nonce, ...writeArgs} = args
RestArgs(request) ==
    [account |-> request.account, data |-> request.data, chain |-> request.chain]

\* {...restArgs, nonce: intendedNonce}
ArgsWithNonce(restArgs, intendedNonce) ==
    [account |-> restArgs.account, data |-> restArgs.data, chain |-> restArgs.chain,
     nonce |-> intendedNonce]

\* Mutation: the hash of a receipt is read from the wrong field.
extractHash_WrongField(op, result) == IF op \in SyncOps THEN result.status ELSE result.hash

\* extractHash: (hash) => hash, or (receipt) => receipt.transactionHash
extractHash(op, result) == IF op \in SyncOps THEN result.transactionHash ELSE result.hash

\* The values the wallet client's operation `op` can resolve with.
BroadcastResults(op) ==
    IF op \in SyncOps
    THEN {Receipt(h, "success") : h \in Hashes}
    ELSE {HashResult(h) : h \in Hashes}

\* crypto.randomUUID(): the k-th value of the random source.
Uuid(k) == "uuid-" \o ToString(k)
UuidPool == {Uuid(k) : k \in 1..Cardinality(Calls)}

\* Mutation: the identifier is generated once, not per call.
generateTrackingId_Fixed(uuid) == Uuid(1)

generateTrackingId(uuid) == uuid

\* Mutation: without metadata.id the identifier is derived from the transaction hash.
createTrackedTransaction_IdFromHash(txHash, from, nonce, metadata, request, wallet, uuid, dateNow) ==
    [trackingId |-> IF metadata.defined /\ metadata.hasId
                    THEN metadata.id ELSE "id-" \o txHash,
     txHash |-> txHash,
     from |-> from,
     nonce |-> nonce,
     chainId |-> IF wallet.chain = 0 THEN 1 ELSE wallet.chain,
     metadata |-> IF metadata.defined THEN metadata ELSE EmptyObject,
     initiatedAt |-> dateNow,
     request |-> request]

\* Mutation: a per-call chain override is recorded as the chain id.
createTrackedTransaction_ChainOverride(txHash, from, nonce, metadata, request, wallet, uuid, dateNow) ==
    [trackingId |-> IF metadata.defined /\ metadata.hasId
                    THEN metadata.id ELSE generateTrackingId(uuid),
     txHash |-> txHash,
     from |-> from,
     nonce |-> nonce,
     chainId |-> IF "chain" \in DOMAIN request /\ request.chain # NoChain THEN request.chain
                 ELSE IF wallet.chain = 0 THEN 1 ELSE wallet.chain,
     metadata |-> IF metadata.defined THEN metadata ELSE EmptyObject,
     initiatedAt |-> dateNow,
     request |-> request]

createTrackedTransaction(txHash, from, nonce, metadata, request, wallet, uuid, dateNow) ==
    [trackingId |-> IF metadata.defined /\ metadata.hasId
                    THEN metadata.id ELSE generateTrackingId(uuid),
     txHash |-> txHash,
     from |-> from,
     nonce |-> nonce,
     chainId |-> IF wallet.chain = 0 THEN 1 ELSE wallet.chain,
     metadata |-> IF metadata.defined THEN metadata ELSE EmptyObject,
     initiatedAt |-> dateNow,
     request |-> request]

\* ---------------------------------------------------------------- state
VARIABLES
    walletClient,   \* the wrapped wallet client's configuration: [account, chain]
    usedUuids,      \* the values crypto.randomUUID() has returned so far
    now,            \* the wall clock, what Date.now() returns
    stamps,         \* per call: the clock when the call started and when it broadcast
    pc,             \* per call: the await the call is suspended at
    args,           \* per call: the argument object the caller passed
    ctx,            \* per call: TransactionContext {from, intendedNonce}
    result,         \* per call: what the underlying broadcast resolved with
    actualNonce,    \* per call: what verifyTransactionNonce returned
    trackedTx,      \* per call: the TrackedTransaction records constructed
    emitted,        \* per call: times the emit placeholder was reached
    warnings,       \* per call: console.warn lines written
    countCalls,     \* per call: requests made to publicClient.getTransactionCount
    sent,           \* per call: requests made to the wallet client's operation
    getTxCalls,     \* per call: requests made to publicClient.getTransaction
    reply,          \* per call: how each collaborator request settled
    outcome         \* per call: how the wrapper's promise settled

\* The transaction list store (createTransactionListStore).
VARIABLES
    currentPublicClient,    \* the public client set by setPublicClient, or null
    state,                  \* the writable's value: TransactionListState
    scans                   \* per fetchTransactions call: how it went

\* The notifications service (createNotificationsService).
VARIABLES
    lastId,         \* the counter ids are taken from
    store,          \* the writable's value: Notification[]
    assigned,       \* every id handed out so far, in order
    commandRuns,    \* per id: for each run of its action's command, whether the
                    \* notification was still in the store when the command ran
    lastCall        \* the last call made to the service and whether its id was present

walletVars == <<walletClient, usedUuids, now, stamps, pc, args, ctx, result, actualNonce,
                trackedTx, emitted, warnings, countCalls, sent, getTxCalls, reply, outcome>>
storeVars == <<currentPublicClient, state, scans>>
notificationVars == <<lastId, store, assigned, commandRuns, lastCall>>

vars == <<walletVars, storeVars, notificationVars>>

Pending == [state |-> "pending"]
Fulfilled(v) == [state |-> "fulfilled", value |-> v]
Rejected(e) == [state |-> "rejected", reason |-> e]
NotAsked == [state |-> "none"]
NoReplies == [count |-> NotAsked, send |-> NotAsked, getTx |-> NotAsked, recover |-> NotAsked]

NoStamps == [started |-> 0, broadcast |-> 0]

NoContext == [from |-> NoAddress, intendedNonce |-> 0]
Context(from, intendedNonce) == [from |-> from, intendedNonce |-> intendedNonce]

NoAccountError == "[TrackedWalletClient] No account available."
NoNonceError == "[TrackedWalletClient] Could not extract nonce from serialized transaction."

\* ------------------------------------------- transaction list store: values
\* currentPublicClient: PublicClient | null
NoClient == "null"
PublicClients == {"publicClient"}

\* error: string | null, lastBlockNumber: bigint | null
NoError == "null"
NoBlock == 0
NoClientError == "Public client not available"
FetchFailedError == "Failed to fetch transactions"
DefaultTargetCount == 20

\* A TransactionSummary, and what scanLatestTransactions can resolve with:
\* the latest transactions, newest first.
TransactionSummary(b) == [hash |-> "0xt" \o ToString(b), blockNumber |-> b]
ScanResults ==
    {<<>>} \cup {<<TransactionSummary(b)>> : b \in 1..MaxBlock}
        \cup {<<TransactionSummary(p[1]), TransactionSummary(p[2])>> :
                p \in {q \in (1..MaxBlock) \X (1..MaxBlock) : q[1] > q[2]}}
\* What scanLatestTransactions can reject with: an Error, its message possibly empty.
ScanErrors == {[message |-> "HTTP request failed"], [message |-> ""]}

initialState ==
    [transactions |-> <<>>, loading |-> FALSE, error |-> NoError, lastBlockNumber |-> NoBlock]

Fetches == 1..MaxFetches
NoScan == [status |-> "idle", via |-> "", targetCount |-> 0]

InitStore ==
    /\ currentPublicClient = NoClient
    /\ state = initialState
    /\ scans = [i \in Fetches |-> NoScan]

\* ------------------------------------------- notifications service: values
InitialLastId == 1
\* NotificationToAdd: a title, and an action (label, command) or none.
NotificationsToAdd == {[title |-> "Update ready", action |-> TRUE],
                       [title |-> "Saved", action |-> FALSE]}
Notification(notification, id) ==
    [title |-> notification.title, action |-> notification.action, id |-> id]
Ids == 0..(InitialLastId + MaxAdds + 1)

NoCall == [op |-> "", id |-> 0, present |-> FALSE]
Call(op, id, present) == [op |-> op, id |-> id, present |-> present]

InitNotifications ==
    /\ lastId = InitialLastId
    /\ store = <<>>
    /\ assigned = <<>>
    /\ commandRuns = [id \in Ids |-> <<>>]
    /\ lastCall = NoCall

Init ==
    /\ InitStore
    /\ InitNotifications
    /\ walletClient \in [account : WalletAccounts, chain : WalletChains]
    /\ usedUuids = {}
    /\ now = 0
    /\ stamps = [c \in Calls |-> NoStamps]
    /\ pc = [c \in Calls |-> "idle"]
    /\ args = [c \in Calls |-> NoRequest]
    /\ ctx = [c \in Calls |-> NoContext]
    /\ result = [c \in Calls |-> NoResult]
    /\ actualNonce = [c \in Calls |-> 0]
    /\ trackedTx = [c \in Calls |-> <<>>]
    /\ emitted = [c \in Calls |-> 0]
    /\ warnings = [c \in Calls |-> 0]
    /\ countCalls = [c \in Calls |-> <<>>]
    /\ sent = [c \in Calls |-> <<>>]
    /\ getTxCalls = [c \in Calls |-> <<>>]
    /\ reply = [c \in Calls |-> NoReplies]
    /\ outcome = [c \in Calls |-> NotAsked]

\* -------------------------------------------------------------- actions
\* What a call leaves alone unless it says otherwise.
Settle(c, o, to) ==
    /\ outcome' = [outcome EXCEPT ![c] = o]
    /\ pc' = [pc EXCEPT ![c] = to]

\* Mutation: the nonce is fetched from the chain whatever the caller passed.
extractTransactionContext_AlwaysFetches(c, r) ==
    LET account == AccountOrDefault(normalizeAccount(r.account), walletClient)
        from == resolveAccountAddress(account)
    IN  IF from = NoAddress
        THEN /\ Settle(c, Rejected(NoAccountError), "rejected")
             /\ UNCHANGED <<ctx, countCalls, reply>>
        ELSE /\ ctx' = [ctx EXCEPT ![c] = Context(from, 0)]
             /\ countCalls' = [countCalls EXCEPT ![c] =
                    Append(@, [address |-> from, blockTag |-> NonceBlockTag(r.nonce)])]
             /\ reply' = [reply EXCEPT ![c].count = Pending]
             /\ Settle(c, Pending, "awaitCount")

\* extractTransactionContext up to its first await: sender resolution, the
\* configuration error, and resolveNonce up to publicClient.getTransactionCount.
extractTransactionContext(c, r) ==
    LET account == AccountOrDefault(normalizeAccount(r.account), walletClient)
        from == resolveAccountAddress(account)
    IN  IF from = NoAddress
        THEN /\ Settle(c, Rejected(NoAccountError), "rejected")
             /\ UNCHANGED <<ctx, countCalls, reply>>
        ELSE IF r.nonce.kind = "number"
        THEN /\ ctx' = [ctx EXCEPT ![c] = Context(from, r.nonce.num)]
             /\ Settle(c, Pending, "ready")
             /\ UNCHANGED <<countCalls, reply>>
        ELSE /\ ctx' = [ctx EXCEPT ![c] = Context(from, 0)]
             /\ countCalls' = [countCalls EXCEPT ![c] =
                    Append(@, [address |-> from, blockTag |-> NonceBlockTag(r.nonce)])]
             /\ reply' = [reply EXCEPT ![c].count = Pending]
             /\ Settle(c, Pending, "awaitCount")

\* Mutation: a submission waits until no other submission is in flight.
executeTrackedTransaction_Serialized(c, r) ==
    /\ pc[c] = "idle"
    /\ \A d \in Earlier(c) : pc[d] \in {"resolved", "rejected"}
    /\ r.op \in TrackedOps
    /\ args' = [args EXCEPT ![c] = r]
    /\ extractTransactionContext(c, r)
    /\ stamps' = [stamps EXCEPT ![c].started = now]
    /\ UNCHANGED <<storeVars, notificationVars, walletClient, now, usedUuids, result, actualNonce, trackedTx, emitted,
                   warnings, sent, getTxCalls>>

\* writeContract / sendTransaction / writeContractSync / sendTransactionSync:
\* the call enters executeTrackedTransaction and runs to its first await.
executeTrackedTransaction(c, r) ==
    /\ pc[c] = "idle"
    /\ \A d \in Earlier(c) : pc[d] # "idle"
    /\ r.op \in TrackedOps
    /\ args' = [args EXCEPT ![c] = r]
    /\ extractTransactionContext(c, r)
    /\ stamps' = [stamps EXCEPT ![c].started = now]
    /\ UNCHANGED <<storeVars, notificationVars, walletClient, now, usedUuids, result, actualNonce, trackedTx, emitted,
                   warnings, sent, getTxCalls>>

\* Mutation: the fetched nonce is kept in a variable all calls share.
NonceFetched_SharedNonce(c, n) ==
    /\ pc[c] = "awaitCount"
    /\ reply' = [reply EXCEPT ![c].count = Fulfilled(n)]
    /\ ctx' = [d \in Calls |-> [ctx[d] EXCEPT !.intendedNonce = n]]
    /\ pc' = [pc EXCEPT ![c] = "ready"]
    /\ UNCHANGED <<storeVars, notificationVars, walletClient, now, stamps, usedUuids, args, result, actualNonce, trackedTx,
                   emitted, warnings, countCalls, sent, getTxCalls, outcome>>

\* publicClient.getTransactionCount resolves with n: resolveNonce returns it.
NonceFetched(c, n) ==
    /\ pc[c] = "awaitCount"
    /\ reply' = [reply EXCEPT ![c].count = Fulfilled(n)]
    /\ ctx' = [ctx EXCEPT ![c].intendedNonce = n]
    /\ pc' = [pc EXCEPT ![c] = "ready"]
    /\ UNCHANGED <<storeVars, notificationVars, walletClient, now, stamps, usedUuids, args, result, actualNonce, trackedTx,
                   emitted, warnings, countCalls, sent, getTxCalls, outcome>>

\* Mutation: a failed nonce lookup is swallowed and nonce 0 is used.
NonceFetchFailed_FallsBack(c, e) ==
    /\ pc[c] = "awaitCount"
    /\ reply' = [reply EXCEPT ![c].count = Rejected(e)]
    /\ ctx' = [ctx EXCEPT ![c].intendedNonce = 0]
    /\ pc' = [pc EXCEPT ![c] = "ready"]
    /\ UNCHANGED <<storeVars, notificationVars, walletClient, now, stamps, usedUuids, args, result, actualNonce,
                   trackedTx, emitted, warnings, countCalls, sent, getTxCalls, outcome>>

\* publicClient.getTransactionCount rejects: nothing catches it.
NonceFetchFailed(c, e) ==
    /\ pc[c] = "awaitCount"
    /\ reply' = [reply EXCEPT ![c].count = Rejected(e)]
    /\ Settle(c, Rejected(e), "rejected")
    /\ UNCHANGED <<storeVars, notificationVars, walletClient, now, stamps, usedUuids, args, ctx, result, actualNonce,
                   trackedTx, emitted, warnings, countCalls, sent, getTxCalls>>

\* Mutation: the wrapper holds a broadcast back until the account's earlier
\* nonces are used up, which nothing in the wrapper ever signals.
Execute_WaitsForNonceGap(c) ==
    /\ pc[c] = "ready"
    /\ ctx[c].intendedNonce = 0
    /\ args[c].op \in TrackedOps
    /\ sent' = [sent EXCEPT ![c] =
            Append(@, [method |-> args[c].op,
                       params |-> ArgsWithNonce(RestArgs(args[c]), ctx[c].intendedNonce)])]
    /\ reply' = [reply EXCEPT ![c].send = Pending]
    /\ pc' = [pc EXCEPT ![c] = "awaitBroadcast"]
    /\ stamps' = [stamps EXCEPT ![c].broadcast = now]
    /\ UNCHANGED <<storeVars, notificationVars, walletClient, now, usedUuids, args, ctx, result, actualNonce,
                   trackedTx, emitted, warnings, countCalls, getTxCalls, outcome>>

\* Mutation: the broadcast does not wait for getTransactionCount.
Execute_BeforeNonce(c) ==
    /\ pc[c] \in {"awaitCount", "ready"}
    /\ args[c].op \in TrackedOps
    /\ sent' = [sent EXCEPT ![c] =
            Append(@, [method |-> args[c].op,
                       params |-> ArgsWithNonce(RestArgs(args[c]), ctx[c].intendedNonce)])]
    /\ reply' = [reply EXCEPT ![c].send = Pending]
    /\ pc' = [pc EXCEPT ![c] = "awaitBroadcast"]
    /\ stamps' = [stamps EXCEPT ![c].broadcast = now]
    /\ UNCHANGED <<storeVars, notificationVars, walletClient, now, usedUuids, args, ctx, result, actualNonce,
                   trackedTx, emitted, warnings, countCalls, getTxCalls, outcome>>

\* execute({...restArgs, nonce: intendedNonce}) on the wallet client.
Execute(c) ==
    /\ pc[c] = "ready"
    /\ args[c].op \in TrackedOps
    /\ sent' = [sent EXCEPT ![c] =
            Append(@, [method |-> args[c].op,
                       params |-> ArgsWithNonce(RestArgs(args[c]), ctx[c].intendedNonce)])]
    /\ reply' = [reply EXCEPT ![c].send = Pending]
    /\ pc' = [pc EXCEPT ![c] = "awaitBroadcast"]
    /\ stamps' = [stamps EXCEPT ![c].broadcast = now]
    /\ UNCHANGED <<storeVars, notificationVars, walletClient, now, usedUuids, args, ctx, result, actualNonce,
                   trackedTx, emitted, warnings, countCalls, getTxCalls, outcome>>

\* Mutation: the emit placeholder sits right after the broadcast, before verification.
BroadcastResolved_EmitsEarly(c, v) ==
    /\ pc[c] = "awaitBroadcast"
    /\ args[c].op \in TrackedOps
    /\ v \in BroadcastResults(args[c].op)
    /\ reply' = [reply EXCEPT ![c].send = Fulfilled(v), ![c].getTx = Pending]
    /\ result' = [result EXCEPT ![c] = v]
    /\ getTxCalls' = [getTxCalls EXCEPT ![c] = Append(@, [hash |-> extractHash(args[c].op, v)])]
    /\ emitted' = [emitted EXCEPT ![c] = @ + 1]
    /\ pc' = [pc EXCEPT ![c] = "awaitGetTx"]
    /\ UNCHANGED <<storeVars, notificationVars, walletClient, now, stamps, usedUuids, args, ctx, actualNonce, trackedTx,
                   warnings, countCalls, sent, outcome>>

\* The broadcast resolves with v: extractHash, then verifyTransactionNonce up to
\* publicClient.getTransaction({hash}).
BroadcastResolved(c, v) ==
    /\ pc[c] = "awaitBroadcast"
    /\ args[c].op \in TrackedOps
    /\ v \in BroadcastResults(args[c].op)
    /\ reply' = [reply EXCEPT ![c].send = Fulfilled(v), ![c].getTx = Pending]
    /\ result' = [result EXCEPT ![c] = v]
    /\ getTxCalls' = [getTxCalls EXCEPT ![c] = Append(@, [hash |-> extractHash(args[c].op, v)])]
    /\ pc' = [pc EXCEPT ![c] = "awaitGetTx"]
    /\ UNCHANGED <<storeVars, notificationVars, walletClient, now, stamps, usedUuids, args, ctx, actualNonce, trackedTx,
                   emitted, warnings, countCalls, sent, outcome>>

\* Mutation: the broadcast error is caught and rethrown wrapped.
BroadcastRejected_Wrapped(c, e) ==
    /\ pc[c] = "awaitBroadcast"
    /\ args[c].op \in TrackedOps
    /\ reply' = [reply EXCEPT ![c].send = Rejected(e)]
    /\ Settle(c, Rejected("[TrackedWalletClient] Transaction failed."), "rejected")
    /\ UNCHANGED <<storeVars, notificationVars, walletClient, now, stamps, usedUuids, args, ctx, result, actualNonce,
                   trackedTx, emitted, warnings, countCalls, sent, getTxCalls>>

\* The broadcast rejects with e: nothing catches it.
BroadcastRejected(c, e) ==
    /\ pc[c] = "awaitBroadcast"
    /\ args[c].op \in TrackedOps
    /\ reply' = [reply EXCEPT ![c].send = Rejected(e)]
    /\ Settle(c, Rejected(e), "rejected")
    /\ UNCHANGED <<storeVars, notificationVars, walletClient, now, stamps, usedUuids, args, ctx, result, actualNonce,
                   trackedTx, emitted, warnings, countCalls, sent, getTxCalls>>

\* Mutation: the warning is written whether or not the nonces differ.
TxFetched_AlwaysWarns(c, n) ==
    /\ pc[c] = "awaitGetTx"
    /\ reply' = [reply EXCEPT ![c].getTx = Fulfilled(n)]
    /\ warnings' = [warnings EXCEPT ![c] = @ + 1]
    /\ actualNonce' = [actualNonce EXCEPT ![c] = n]
    /\ pc' = [pc EXCEPT ![c] = "verified"]
    /\ UNCHANGED <<storeVars, notificationVars, walletClient, now, stamps, usedUuids, args, ctx, result, trackedTx, emitted,
                   countCalls, sent, getTxCalls, outcome>>

\* Mutation: the looked-up nonce is compared but the intended one is returned.
TxFetched_KeepsIntended(c, n) ==
    /\ pc[c] = "awaitGetTx"
    /\ reply' = [reply EXCEPT ![c].getTx = Fulfilled(n)]
    /\ warnings' = [warnings EXCEPT ![c] = IF n # ctx[c].intendedNonce THEN @ + 1 ELSE @]
    /\ actualNonce' = [actualNonce EXCEPT ![c] = ctx[c].intendedNonce]
    /\ pc' = [pc EXCEPT ![c] = "verified"]
    /\ UNCHANGED <<storeVars, notificationVars, walletClient, now, stamps, usedUuids, args, ctx, result, trackedTx, emitted,
                   countCalls, sent, getTxCalls, outcome>>

\* verifyTransactionNonce, try branch: tx.nonce is returned, a mismatch is warned about.
TxFetched(c, n) ==
    /\ pc[c] = "awaitGetTx"
    /\ reply' = [reply EXCEPT ![c].getTx = Fulfilled(n)]
    /\ warnings' = [warnings EXCEPT ![c] = IF n # ctx[c].intendedNonce THEN @ + 1 ELSE @]
    /\ actualNonce' = [actualNonce EXCEPT ![c] = n]
    /\ pc' = [pc EXCEPT ![c] = "verified"]
    /\ UNCHANGED <<storeVars, notificationVars, walletClient, now, stamps, usedUuids, args, ctx, result, trackedTx, emitted,
                   countCalls, sent, getTxCalls, outcome>>

\* Mutation: a failed lookup is tried once more before falling back.
TxFetchFailed_Retries(c, e) ==
    /\ pc[c] = "awaitGetTx"
    /\ IF Len(getTxCalls[c]) < 2
       THEN /\ getTxCalls' = [getTxCalls EXCEPT ![c] = Append(@, @[1])]
            /\ reply' = [reply EXCEPT ![c].getTx = Pending]
            /\ UNCHANGED <<warnings, actualNonce, pc>>
       ELSE /\ reply' = [reply EXCEPT ![c].getTx = Rejected(e)]
            /\ warnings' = [warnings EXCEPT ![c] = @ + 1]
            /\ actualNonce' = [actualNonce EXCEPT ![c] = ctx[c].intendedNonce]
            /\ pc' = [pc EXCEPT ![c] = "verified"]
            /\ UNCHANGED getTxCalls
    /\ UNCHANGED <<storeVars, notificationVars, walletClient, now, stamps, usedUuids, args, ctx, result, trackedTx, emitted,
                   countCalls, sent, outcome>>

\* Mutation: no try/catch around the lookup, its error ends the call.
TxFetchFailed_Rethrows(c, e) ==
    /\ pc[c] = "awaitGetTx"
    /\ reply' = [reply EXCEPT ![c].getTx = Rejected(e)]
    /\ Settle(c, Rejected(e), "rejected")
    /\ UNCHANGED <<storeVars, notificationVars, walletClient, now, stamps, usedUuids, args, ctx, result, actualNonce, trackedTx,
                   emitted, warnings, countCalls, sent, getTxCalls>>

\* verifyTransactionNonce, catch branch: warn and return the intended nonce.
TxFetchFailed(c, e) ==
    /\ pc[c] = "awaitGetTx"
    /\ reply' = [reply EXCEPT ![c].getTx = Rejected(e)]
    /\ warnings' = [warnings EXCEPT ![c] = @ + 1]
    /\ actualNonce' = [actualNonce EXCEPT ![c] = ctx[c].intendedNonce]
    /\ pc' = [pc EXCEPT ![c] = "verified"]
    /\ UNCHANGED <<storeVars, notificationVars, walletClient, now, stamps, usedUuids, args, ctx, result, trackedTx, emitted,
                   countCalls, sent, getTxCalls, outcome>>

\* createTrackedTransaction, drawing from crypto.randomUUID() only when
\* metadata?.id is null or undefined; then the emit placeholder.
Track(c, txHash, nonce, request, uuid) ==
    /\ IF args[c].metadata.defined /\ args[c].metadata.hasId
       THEN uuid = Uuid(1) /\ UNCHANGED usedUuids
       ELSE uuid \notin usedUuids /\ usedUuids' = usedUuids \cup {uuid}
    /\ trackedTx' = [trackedTx EXCEPT ![c] = Append(@,
            createTrackedTransaction(txHash, ctx[c].from, nonce, args[c].metadata,
                                     request, walletClient, uuid, now))]
    /\ emitted' = [emitted EXCEPT ![c] = @ + 1]

\* Mutation: the extracted hash is returned in place of the result.
Complete_ReturnsHash(c, uuid) ==
    /\ pc[c] = "verified"
    /\ Track(c, extractHash(args[c].op, result[c]), actualNonce[c], RestArgs(args[c]), uuid)
    /\ Settle(c, Fulfilled(HashResult(extractHash(args[c].op, result[c]))), "resolved")
    /\ UNCHANGED <<storeVars, notificationVars, walletClient, now, stamps, args, ctx, result, actualNonce, warnings,
                   countCalls, sent, getTxCalls, reply>>

\* executeTrackedTransaction after verification: record, emit placeholder, return result.
Complete(c, uuid) ==
    /\ pc[c] = "verified"
    /\ Track(c, extractHash(args[c].op, result[c]), actualNonce[c], RestArgs(args[c]), uuid)
    /\ Settle(c, Fulfilled(result[c]), "resolved")
    /\ UNCHANGED <<storeVars, notificationVars, walletClient, now, stamps, args, ctx, result, actualNonce, warnings,
                   countCalls, sent, getTxCalls, reply>>

\* Mutation: a payload without a nonce is taken to carry nonce 0.
extractRawTransactionContext_DefaultsNonce(c, serializedTransaction) ==
    /\ ctx' = [ctx EXCEPT ![c] = Context(NoAddress,
            IF serializedTransaction.hasNonce THEN serializedTransaction.nonce ELSE 0)]
    /\ reply' = [reply EXCEPT ![c].recover = Pending]
    /\ Settle(c, Pending, "awaitRecover")

\* extractRawTransactionContext up to its await: parseTransaction, the decoding
\* error, and the call of recoverTransactionAddress.
extractRawTransactionContext(c, serializedTransaction) ==
    IF ~serializedTransaction.hasNonce
    THEN /\ Settle(c, Rejected(NoNonceError), "rejected")
         /\ UNCHANGED <<ctx, reply>>
    ELSE /\ ctx' = [ctx EXCEPT ![c] = Context(NoAddress, serializedTransaction.nonce)]
         /\ reply' = [reply EXCEPT ![c].recover = Pending]
         /\ Settle(c, Pending, "awaitRecover")

\* sendRawTransaction / sendRawTransactionSync: the call enters
\* executeTrackedRawTransaction and runs to its first await.
executeTrackedRawTransaction(c, r) ==
    /\ pc[c] = "idle"
    /\ \A d \in Earlier(c) : pc[d] # "idle"
    /\ r.op \in RawOps
    /\ args' = [args EXCEPT ![c] = r]
    /\ extractRawTransactionContext(c, r.serializedTransaction)
    /\ stamps' = [stamps EXCEPT ![c].started = now]
    /\ UNCHANGED <<storeVars, notificationVars, walletClient, now, usedUuids, result, actualNonce, trackedTx, emitted,
                   warnings, countCalls, sent, getTxCalls>>

\* Mutation: the sender is taken from the wallet client, not from the signature.
Recovered_UsesWalletAccount(c) ==
    /\ pc[c] = "awaitRecover"
    /\ args[c].serializedTransaction.signer # NoAddress
    /\ reply' = [reply EXCEPT ![c].recover = Fulfilled(args[c].serializedTransaction.signer)]
    /\ ctx' = [ctx EXCEPT ![c].from = resolveAccountAddress(walletClient.account)]
    /\ pc' = [pc EXCEPT ![c] = "ready"]
    /\ UNCHANGED <<storeVars, notificationVars, walletClient, now, stamps, usedUuids, args, result, actualNonce, trackedTx,
                   emitted, warnings, countCalls, sent, getTxCalls, outcome>>

\* recoverTransactionAddress resolves with the signer of the payload.
Recovered(c) ==
    /\ pc[c] = "awaitRecover"
    /\ args[c].serializedTransaction.signer # NoAddress
    /\ reply' = [reply EXCEPT ![c].recover = Fulfilled(args[c].serializedTransaction.signer)]
    /\ ctx' = [ctx EXCEPT ![c].from = args[c].serializedTransaction.signer]
    /\ pc' = [pc EXCEPT ![c] = "ready"]
    /\ UNCHANGED <<storeVars, notificationVars, walletClient, now, stamps, usedUuids, args, result, actualNonce, trackedTx,
                   emitted, warnings, countCalls, sent, getTxCalls, outcome>>

\* recoverTransactionAddress rejects (no valid signature): nothing catches it.
RecoverFailed(c, e) ==
    /\ pc[c] = "awaitRecover"
    /\ args[c].serializedTransaction.signer = NoAddress
    /\ reply' = [reply EXCEPT ![c].recover = Rejected(e)]
    /\ Settle(c, Rejected(e), "rejected")
    /\ UNCHANGED <<storeVars, notificationVars, walletClient, now, stamps, usedUuids, args, ctx, result, actualNonce,
                   trackedTx, emitted, warnings, countCalls, sent, getTxCalls>>

\* execute() : walletClient.sendRawTransaction[Sync]({serializedTransaction}).
ExecuteRaw(c) ==
    /\ pc[c] = "ready"
    /\ args[c].op \in RawOps
    /\ sent' = [sent EXCEPT ![c] =
            Append(@, [method |-> args[c].op,
                       params |-> [serializedTransaction |-> args[c].serializedTransaction]])]
    /\ reply' = [reply EXCEPT ![c].send = Pending]
    /\ pc' = [pc EXCEPT ![c] = "awaitBroadcast"]
    /\ stamps' = [stamps EXCEPT ![c].broadcast = now]
    /\ UNCHANGED <<storeVars, notificationVars, walletClient, now, usedUuids, args, ctx, result, actualNonce,
                   trackedTx, emitted, warnings, countCalls, getTxCalls, outcome>>

\* The relay resolves with v: record with the decoded nonce, emit placeholder, return v.
RawBroadcastResolved(c, v, uuid) ==
    /\ pc[c] = "awaitBroadcast"
    /\ args[c].op \in RawOps
    /\ v \in BroadcastResults(args[c].op)
    /\ reply' = [reply EXCEPT ![c].send = Fulfilled(v)]
    /\ result' = [result EXCEPT ![c] = v]
    /\ Track(c, extractHash(args[c].op, v), ctx[c].intendedNonce,
             [serializedTransaction |-> args[c].serializedTransaction], uuid)
    /\ Settle(c, Fulfilled(v), "resolved")
    /\ UNCHANGED <<storeVars, notificationVars, walletClient, now, stamps, args, ctx, actualNonce, warnings, countCalls,
                   sent, getTxCalls>>

\* The relay rejects with e: nothing catches it.
RawBroadcastRejected(c, e) ==
    /\ pc[c] = "awaitBroadcast"
    /\ args[c].op \in RawOps
    /\ reply' = [reply EXCEPT ![c].send = Rejected(e)]
    /\ Settle(c, Rejected(e), "rejected")
    /\ UNCHANGED <<storeVars, notificationVars, walletClient, now, stamps, usedUuids, args, ctx, result, actualNonce,
                   trackedTx, emitted, warnings, countCalls, sent, getTxCalls>>

\* Time passes.
Tick ==
    /\ now < MaxClock
    /\ now' = now + 1
    /\ UNCHANGED <<storeVars, notificationVars, walletClient, usedUuids, stamps, pc, args, ctx, result, actualNonce,
                   trackedTx, emitted, warnings, countCalls, sent, getTxCalls, reply, outcome>>

\* No wrapper call has been started.
Quiet == \A c \in Calls : pc[c] = "idle"

\* The collaborators settle a pending request and the call runs to its next await.
Settlement ==
    \/ \E c \in Calls, n \in Nonces : NonceFetched(c, n)
    \/ \E c \in Calls, e \in RpcErrors : NonceFetchFailed(c, e)
    \/ \E c \in Calls : Execute(c)
    \/ \E c \in Calls : \E v \in BroadcastResults(args[c].op) : BroadcastResolved(c, v)
    \/ \E c \in Calls, e \in BroadcastErrors : BroadcastRejected(c, e)
    \/ \E c \in Calls, n \in Nonces : TxFetched(c, n)
    \/ \E c \in Calls, e \in LookupErrors : TxFetchFailed(c, e)
    \/ \E c \in Calls, u \in UuidPool : Complete(c, u)
    \/ \E c \in Calls : Recovered(c)
    \/ \E c \in Calls, e \in RecoverErrors : RecoverFailed(c, e)
    \/ \E c \in Calls : ExecuteRaw(c)
    \/ \E c \in Calls, u \in UuidPool : \E v \in BroadcastResults(args[c].op) :
            RawBroadcastResolved(c, v, u)
    \/ \E c \in Calls, e \in BroadcastErrors : RawBroadcastRejected(c, e)

\* One wrapper call, over every argument object.
Next ==
    \/ Quiet /\ \E c \in Calls, r \in TrackedRequests : executeTrackedTransaction(c, r)
    \/ Quiet /\ \E c \in Calls, r \in RawRequests : executeTrackedRawTransaction(c, r)
    \/ Settlement

Spec == Init /\ [][Next]_vars

\* Calls that may overlap: the caller starts a call whenever it likes.
ConcTrackedRequests ==
    {Request(op, NoAccount, n, m, "0xdata", NoChain, NoSerialized) :
        op \in TrackedOps,
        n \in {NoNonce, NumNonce(0)},
        m \in {NoMetadata, Metadata(TRUE, "order-1", "Pay")}}
ConcRawRequests ==
    {Request(op, NoAccount, NoNonce, m, "", NoChain, Serialized(TRUE, 0, a)) :
        op \in RawOps, m \in {NoMetadata, Metadata(TRUE, "order-1", "Pay")}, a \in {"0xA2", NoAddress}}

InitConc ==
    /\ Init
    /\ walletClient = [account |-> ObjAccount("0xA1"), chain |-> 31337]

NextConc ==
    \/ \E c \in Calls, r \in ConcTrackedRequests : executeTrackedTransaction(c, r)
    \/ \E c \in Calls, r \in ConcRawRequests : executeTrackedRawTransaction(c, r)
    \/ Settlement

SpecConc == InitConc /\ [][NextConc]_vars

\* The next step of call c: a collaborator settles its pending request, or the
\* call's own continuation runs.
Step(c) == Settlement /\ pc'[c] # pc[c]

\* Every collaborator request that was started settles, and the event loop runs
\* every continuation that is ready.
Fairness == \A c \in Calls : WF_vars(Step(c))

\* One wrapper call over every account and nonce argument, and every payload.
LiveTrackedRequests ==
    {r \in TrackedRequests : r.metadata = NoMetadata /\ r.chain = NoChain}
LiveRawRequests == {r \in RawRequests : r.metadata = NoMetadata}

NextLive ==
    \/ Quiet /\ \E c \in Calls, r \in LiveTrackedRequests : executeTrackedTransaction(c, r)
    \/ Quiet /\ \E c \in Calls, r \in LiveRawRequests : executeTrackedRawTransaction(c, r)
    \/ Settlement

SpecLive == Init /\ [][NextLive]_vars /\ Fairness

\* One wrapper call while the wall clock advances.
ClockTrackedRequests ==
    {Request(op, NoAccount, n, NoMetadata, "0xdata", NoChain, NoSerialized) :
        op \in {"sendTransaction", "writeContractSync"}, n \in {NoNonce, NumNonce(0)}}
ClockRawRequests ==
    {Request("sendRawTransaction", NoAccount, NoNonce, NoMetadata, "", NoChain, Serialized(TRUE, 0, a)) :
        a \in {"0xA2", NoAddress}}

NextClock ==
    \/ Quiet /\ \E c \in Calls, r \in ClockTrackedRequests : executeTrackedTransaction(c, r)
    \/ Quiet /\ \E c \in Calls, r \in ClockRawRequests : executeTrackedRawTransaction(c, r)
    \/ Settlement
    \/ Tick

SpecClock == InitConc /\ [][NextClock]_vars

\* ---------------------------------------- transaction list store: actions
setPublicClient(client) ==
    /\ currentPublicClient' = client
    /\ UNCHANGED <<state, scans, walletVars, notificationVars>>

\* The next fetchTransactions call of the behaviour.
NextFetch == CHOOSE i \in Fetches : scans[i].status = "idle" /\ \A j \in 1..(i-1) : scans[j].status # "idle"

\* fetchTransactions(targetCount) up to its await: the client check, or
\* loading: true, error: null and the call of scanLatestTransactions.
fetchTransactions(targetCount, via) ==
    /\ \E i \in Fetches : scans[i].status = "idle"
    /\ IF currentPublicClient = NoClient
       THEN /\ state' = [state EXCEPT !.error = NoClientError]
            /\ scans' = [scans EXCEPT ![NextFetch] =
                    [status |-> "refused", via |-> via, targetCount |-> targetCount]]
       ELSE /\ state' = [state EXCEPT !.loading = TRUE, !.error = NoError]
            /\ scans' = [scans EXCEPT ![NextFetch] =
                    [status |-> "scanning", via |-> via, targetCount |-> targetCount]]
    /\ UNCHANGED <<currentPublicClient, walletVars, notificationVars>>

\* refresh(): refetch as many transactions as are held, or 20.
refresh ==
    fetchTransactions(IF Len(state.transactions) > 0
                      THEN Len(state.transactions) ELSE DefaultTargetCount, "refresh")

\* scanLatestTransactions resolves with txs.
ScanResolved(i, txs) ==
    /\ scans[i].status = "scanning"
    /\ state' = [state EXCEPT
            !.transactions = txs,
            !.lastBlockNumber = IF Len(txs) > 0 THEN txs[1].blockNumber ELSE @,
            !.loading = FALSE]
    /\ scans' = [scans EXCEPT ![i].status = "done"]
    /\ UNCHANGED <<currentPublicClient, walletVars, notificationVars>>

\* Mutation: the catch branch records the error but leaves loading alone.
ScanRejected_KeepsLoading(i, e) ==
    /\ scans[i].status = "scanning"
    /\ state' = [state EXCEPT
            !.error = IF e.message # "" THEN e.message ELSE FetchFailedError]
    /\ scans' = [scans EXCEPT ![i].status = "failed"]
    /\ UNCHANGED <<currentPublicClient, walletVars, notificationVars>>

\* Mutation: the catch branch starts from the initial state.
ScanRejected_DropsList(i, e) ==
    /\ scans[i].status = "scanning"
    /\ state' = [initialState EXCEPT
            !.error = IF e.message # "" THEN e.message ELSE FetchFailedError]
    /\ scans' = [scans EXCEPT ![i].status = "failed"]
    /\ UNCHANGED <<currentPublicClient, walletVars, notificationVars>>

\* scanLatestTransactions rejects with e: the catch branch.
ScanRejected(i, e) ==
    /\ scans[i].status = "scanning"
    /\ state' = [state EXCEPT
            !.error = IF e.message # "" THEN e.message ELSE FetchFailedError,
            !.loading = FALSE]
    /\ scans' = [scans EXCEPT ![i].status = "failed"]
    /\ UNCHANGED <<currentPublicClient, walletVars, notificationVars>>

reset ==
    /\ state' = initialState
    /\ UNCHANGED <<currentPublicClient, scans, walletVars, notificationVars>>

NextStore ==
    \/ \E client \in PublicClients \cup {NoClient} : setPublicClient(client)
    \/ fetchTransactions(DefaultTargetCount, "fetchTransactions")
    \/ refresh
    \/ \E i \in Fetches, txs \in ScanResults : ScanResolved(i, txs)
    \/ \E i \in Fetches, e \in ScanErrors : ScanRejected(i, e)
    \/ reset

SpecStore == InitConc /\ [][NextStore]_vars

\* ---------------------------------------- notifications service: actions
\* The ids of the notifications in a list.
IdsOf(notifications) == {notifications[i].id : i \in 1..Len(notifications)}

\* notifications.filter((notification) => notification.id !== id)
Without(notifications, id) ==
    LET Keep(notification) == notification.id # id
    IN  SelectSeq(notifications, Keep)

\* Mutation: the id is derived from the length of the list.
add_IdFromLength(notification) ==
    /\ lastId < InitialLastId + MaxAdds
    /\ lastId' = lastId + 1
    /\ store' = Append(store, Notification(notification, Len(store) + InitialLastId + 1))
    /\ assigned' = Append(assigned, Len(store) + InitialLastId + 1)
    /\ lastCall' = Call("add", Len(store) + InitialLastId + 1, FALSE)
    /\ UNCHANGED <<commandRuns, walletVars, storeVars>>

add(notification) ==
    /\ lastId < InitialLastId + MaxAdds
    /\ lastId' = lastId + 1
    /\ store' = Append(store, Notification(notification, lastId + 1))
    /\ assigned' = Append(assigned, lastId + 1)
    /\ lastCall' = Call("add", lastId + 1, FALSE)
    /\ UNCHANGED <<commandRuns, walletVars, storeVars>>

remove(id) ==
    /\ store' = Without(store, id)
    /\ lastCall' = Call("remove", id, id \in IdsOf(store))
    /\ UNCHANGED <<lastId, assigned, commandRuns, walletVars, storeVars>>

\* Mutation: the command runs first, the notification is removed afterwards.
onAction_CommandFirst(id) ==
    /\ lastCall' = Call("onAction", id, id \in IdsOf(store))
    /\ IF id \in IdsOf(store)
       THEN LET notification == CHOOSE n \in {store[i] : i \in 1..Len(store)} : n.id = id
            IN  /\ commandRuns' = [commandRuns EXCEPT ![id] =
                        IF notification.action THEN Append(@, id \in IdsOf(store)) ELSE @]
                /\ store' = Without(store, id)
       ELSE UNCHANGED <<store, commandRuns>>
    /\ UNCHANGED <<lastId, assigned, walletVars, storeVars>>

\* onAction(id): find the notification; if there is one, remove(id), then run
\* its action's command if it has an action.
onAction(id) ==
    /\ lastCall' = Call("onAction", id, id \in IdsOf(store))
    /\ IF id \in IdsOf(store)
       THEN LET notification == CHOOSE n \in {store[i] : i \in 1..Len(store)} : n.id = id
            IN  /\ store' = Without(store, id)
                /\ commandRuns' = [commandRuns EXCEPT ![id] =
                        IF notification.action THEN Append(@, id \in IdsOf(store')) ELSE @]
       ELSE UNCHANGED <<store, commandRuns>>
    /\ UNCHANGED <<lastId, assigned, walletVars, storeVars>>

NextNotifications ==
    \/ \E notification \in NotificationsToAdd : add(notification)
    \/ \E id \in Ids : remove(id)
    \/ \E id \in Ids : onAction(id)

SpecNotifications == InitConc /\ [][NextNotifications]_vars

\* ------------------------------------------------------------ properties
\* The first record a call constructed.
Record(c) == trackedTx[c][1]

\* The sender a call's arguments and the client configuration designate.
ExpectedSender(c) ==
    IF args[c].account.kind \in {"string", "object"}
    THEN args[c].account.address
    ELSE walletClient.account.address

Tracked(c) == args[c].op \in TrackedOps
Raw(c) == args[c].op \in RawOps
BroadcastFailed(c) == reply[c].send.state = "rejected"
NonceMismatch(c) ==
    reply[c].getTx.state = "fulfilled" /\ reply[c].getTx.value # ctx[c].intendedNonce
LookupFailed(c) == reply[c].getTx.state = "rejected"
\* Nothing but the call's own continuation is needed for it to resolve.
CanResolve(c) == ENABLED (\E u \in UuidPool : Complete(c, u))
HasId(c) == args[c].metadata.defined /\ args[c].metadata.hasId

\* C1: for each of the six operations, when the underlying broadcast rejects with
\* error E the wrapper call is rejected with exactly E, no TrackedTransaction is
\* constructed, the emit placeholder is not reached and getTransaction is not invoked.
C1_BroadcastFailurePropagates ==
    \A c \in Calls :
        BroadcastFailed(c) =>
            /\ pc[c] = "rejected"
            /\ outcome[c] = Rejected(reply[c].send.reason)
            /\ reply[c].send.reason \in BroadcastErrors
            /\ trackedTx[c] = <<>>
            /\ emitted[c] = 0
            /\ getTxCalls[c] = <<>>
            /\ reply[c].getTx = NotAsked

C1_Witness ==
    \E c \in Calls :
        /\ BroadcastFailed(c)
        /\ args[c].op = "writeContractSync"
        /\ reply[c].send.reason = "InsufficientFunds"

\* C2: a contract-call/transfer call with no account field on a wallet client with
\* no default account is rejected with the 'No account available' error, and
\* getTransactionCount, the broadcast and getTransaction are each invoked zero times.
C2_FailFastOnMissingAccount ==
    \A c \in Calls :
        (Tracked(c) /\ args[c].account = NoAccount /\ walletClient.account = NoAccount) =>
            /\ pc[c] = "rejected"
            /\ outcome[c] = Rejected(NoAccountError)
            /\ countCalls[c] = <<>>
            /\ sent[c] = <<>>
            /\ getTxCalls[c] = <<>>

C2_Witness ==
    \E c \in Calls :
        /\ Tracked(c) /\ args[c].account = NoAccount /\ walletClient.account = NoAccount
        /\ args[c].op = "sendTransactionSync"
        /\ outcome[c] = Rejected(NoAccountError)

\* C3: when getTransaction succeeds with a nonce different from the intended one,
\* the call is never rejected; once it has resolved, it resolved with the broadcast
\* result and the record's nonce is the looked-up nonce, not the intended one.
C3_NonceMismatchTolerated ==
    \A c \in Calls :
        (Tracked(c) /\ NonceMismatch(c)) =>
            /\ pc[c] \in {"verified", "resolved"}
            /\ outcome[c].state # "rejected"
            /\ pc[c] = "verified" => CanResolve(c)
            /\ pc[c] = "resolved" =>
                /\ outcome[c] = Fulfilled(reply[c].send.value)
                /\ Len(trackedTx[c]) = 1
                /\ Record(c).nonce = reply[c].getTx.value
                /\ Record(c).nonce # ctx[c].intendedNonce

C3_Witness ==
    \E c \in Calls :
        /\ Tracked(c) /\ NonceMismatch(c)
        /\ pc[c] = "resolved"
        /\ Record(c).nonce = reply[c].getTx.value

\* C4: when getTransaction throws, the call is never rejected and the lookup is
\* made once only; once the call has resolved, it resolved with the broadcast result
\* and the record's nonce is the intended nonce that was handed to the broadcast.
C4_LookupFailureFallsBack ==
    \A c \in Calls :
        (Tracked(c) /\ LookupFailed(c)) =>
            /\ pc[c] \in {"verified", "resolved"}
            /\ outcome[c].state # "rejected"
            /\ Len(getTxCalls[c]) = 1
            /\ pc[c] = "verified" => CanResolve(c)
            /\ pc[c] = "resolved" =>
                /\ outcome[c] = Fulfilled(reply[c].send.value)
                /\ Len(trackedTx[c]) = 1
                /\ Record(c).nonce = ctx[c].intendedNonce
                /\ Record(c).nonce = sent[c][1].params.nonce

C4_Witness ==
    \E c \in Calls :
        /\ Tracked(c) /\ LookupFailed(c)
        /\ pc[c] = "resolved"
        /\ Record(c).nonce = MaxNonce

\* C5: whatever the verification found (match, mismatch, lookup failure, or none for
\* the relay operations), a call that resolves does so with exactly the value the
\* underlying broadcast resolved with: the hash, or the receipt for the Sync variants.
C5_ResultReturnedUnchanged ==
    \A c \in Calls :
        outcome[c].state = "fulfilled" =>
            /\ reply[c].send.state = "fulfilled"
            /\ outcome[c].value = reply[c].send.value
            /\ outcome[c].value \in BroadcastResults(args[c].op)

C5_Witness ==
    \E c \in Calls :
        /\ outcome[c].state = "fulfilled"
        /\ args[c].op = "sendTransactionSync"
        /\ NonceMismatch(c)
        /\ outcome[c].value.kind = "receipt"

\* C6: when the caller passes a numeric nonce n to a contract-call/transfer
\* operation, getTransactionCount is never invoked in the call and every broadcast
\* request carries nonce n.
C6_NumericNoncePassthrough ==
    \A c \in Calls :
        (Tracked(c) /\ args[c].nonce.kind = "number") =>
            /\ countCalls[c] = <<>>
            /\ reply[c].count = NotAsked
            /\ \A i \in DOMAIN sent[c] : sent[c][i].params.nonce = args[c].nonce.num

C6_Witness ==
    \E c \in Calls :
        /\ Tracked(c) /\ args[c].nonce = NumNonce(MaxNonce)
        /\ pc[c] = "resolved"
        /\ sent[c][1].params.nonce = MaxNonce

\* C7: when the caller passes no nonce field (and a sender is resolved),
\* getTransactionCount is invoked exactly once in the call, for the resolved sender
\* address with block tag 'pending', and every broadcast request carries the
\* integer that lookup returned.
C7_AbsentNonceUsesPending ==
    \A c \in Calls :
        (Tracked(c) /\ args[c].nonce = NoNonce /\ ExpectedSender(c) # NoAddress) =>
            /\ countCalls[c] = <<[address |-> ExpectedSender(c), blockTag |-> "pending"]>>
            /\ \A i \in DOMAIN sent[c] :
                /\ reply[c].count.state = "fulfilled"
                /\ sent[c][i].params.nonce = reply[c].count.value

C7_Witness ==
    \E c \in Calls :
        /\ Tracked(c) /\ args[c].nonce = NoNonce
        /\ pc[c] = "resolved"
        /\ countCalls[c][1].blockTag = "pending"
        /\ sent[c][1].params.nonce = MaxNonce

\* C8: when the caller passes one of the tags latest, pending, earliest, safe,
\* finalized as nonce (and a sender is resolved), getTransactionCount is invoked
\* with that same tag, and every broadcast request carries the integer it returned.
C8_TagNonceUsesTag ==
    \A c \in Calls :
        (/\ Tracked(c)
         /\ args[c].nonce.kind = "string" /\ args[c].nonce.str \in BlockTags
         /\ ExpectedSender(c) # NoAddress) =>
            /\ countCalls[c] =
                    <<[address |-> ExpectedSender(c), blockTag |-> args[c].nonce.str]>>
            /\ \A i \in DOMAIN sent[c] :
                /\ reply[c].count.state = "fulfilled"
                /\ sent[c][i].params.nonce = reply[c].count.value

C8_Witness ==
    \E c \in Calls :
        /\ Tracked(c) /\ args[c].nonce = StrNonce("finalized")
        /\ pc[c] = "resolved"
        /\ countCalls[c][1].blockTag = "finalized"
        /\ sent[c][1].params.nonce = MaxNonce

\* C9: every record of a call whose metadata carries an id has that id as
\* trackingId; every record of a call without one has a generated identifier, and
\* two calls without one, whether they overlapped or not, have distinct identifiers.
C9_TrackingIds ==
    \A c \in Calls :
        trackedTx[c] # <<>> =>
            /\ HasId(c) => Record(c).trackingId = args[c].metadata.id
            /\ ~HasId(c) =>
                /\ Record(c).trackingId \in UuidPool
                /\ \A d \in Calls \ {c} :
                      (trackedTx[d] # <<>> /\ ~HasId(d)) =>
                          Record(d).trackingId # Record(c).trackingId

C9_Witness ==
    /\ \A c \in Calls : pc[c] = "resolved" /\ ~HasId(c)
    /\ Record("c1").trackingId # Record("c2").trackingId
    /\ Tracked("c1") /\ Raw("c2")

\* C10: the relay operations never invoke getTransactionCount nor getTransaction,
\* and the record's nonce is the nonce decoded from the serialized payload and its
\* from is the address recovered from the payload's signature.
C10_RelayUsesPayload ==
    \A c \in Calls :
        Raw(c) =>
            /\ countCalls[c] = <<>>
            /\ getTxCalls[c] = <<>>
            /\ reply[c].count = NotAsked /\ reply[c].getTx = NotAsked
            /\ pc[c] = "resolved" =>
                /\ Len(trackedTx[c]) = 1
                /\ Record(c).nonce = args[c].serializedTransaction.nonce
                /\ Record(c).from = args[c].serializedTransaction.signer
                /\ Record(c).txHash = extractHash(args[c].op, reply[c].send.value)

C10_Witness ==
    \E c \in Calls :
        /\ Raw(c) /\ pc[c] = "resolved"
        /\ Record(c).nonce = MaxNonce
        /\ Record(c).from = "0xA2"

\* The hash of the transaction the underlying broadcast of a call produced.
UnderlyingHash(c) ==
    IF args[c].op \in SyncOps
    THEN reply[c].send.value.transactionHash
    ELSE reply[c].send.value.hash

Broadcast(c) == reply[c].send.state = "fulfilled"

\* C11: a *Sync operation resolves with the receipt its underlying broadcast
\* returned; the hash looked up for verification and the record's txHash are
\* receipt.transactionHash; and for the same underlying transaction that is the
\* hash the hash-returning operation returns and records as txHash.
C11_SyncHashIsReceiptHash ==
    \A c \in Calls :
        (args[c].op \in SyncOps /\ Broadcast(c)) =>
            /\ reply[c].send.value.kind = "receipt"
            /\ (pc[c] = "resolved" => outcome[c] = Fulfilled(reply[c].send.value))
            /\ (getTxCalls[c] # <<>> =>
                    getTxCalls[c][1].hash = reply[c].send.value.transactionHash)
            /\ (trackedTx[c] # <<>> =>
                    Record(c).txHash = reply[c].send.value.transactionHash)
            /\ \A d \in Calls :
                (/\ args[d].op \in Ops \ SyncOps
                 /\ Broadcast(d)
                 /\ UnderlyingHash(d) = UnderlyingHash(c)
                 /\ pc[c] = "resolved"
                 /\ pc[d] = "resolved") =>
                    /\ outcome[d] = Fulfilled(HashResult(Record(c).txHash))
                    /\ Record(d).txHash = Record(c).txHash

C11_Witness ==
    /\ args["c1"].op = "sendTransaction"
    /\ args["c2"].op = "sendTransactionSync"
    /\ pc["c1"] = "resolved"
    /\ pc["c2"] = "resolved"
    /\ UnderlyingHash("c1") = UnderlyingHash("c2")
    /\ getTxCalls["c2"][1].hash = Record("c1").txHash

Verified(c) == reply[c].getTx.state \in {"fulfilled", "rejected"}

\* C12: the record is constructed and the emit placeholder reached exactly once
\* per successful submission, only after the broadcast has succeeded and (for the
\* contract-call/transfer family) nonce verification has completed, and never
\* for a call that rejects.
C12_HookOncePerSuccess ==
    \A c \in Calls :
        /\ emitted[c] = Len(trackedTx[c])
        /\ emitted[c] <= 1
        /\ (pc[c] = "resolved" <=> emitted[c] = 1)
        /\ (emitted[c] = 1 => Broadcast(c) /\ (Tracked(c) => Verified(c)))
        /\ (pc[c] = "rejected" => emitted[c] = 0)

C12_Witness ==
    \E c \in Calls :
        /\ pc[c] = "resolved"
        /\ emitted[c] = 1
        /\ Tracked(c)
        /\ LookupFailed(c)

\* The collaborator requests of a call that have not settled yet.
InFlight(c) == {k \in {"count", "send", "getTx", "recover"} : reply[c][k] = Pending}

C14_InitiatedAtIsSubmissionStart ==
    \A c \in Calls :
        trackedTx[c] # <<>> =>
            /\ Record(c).initiatedAt = stamps[c].started
            /\ Record(c).initiatedAt <= stamps[c].broadcast

\* Two calls asked for the transaction count of the same account at the same
\* tag and got the same answer.
SameLookup(c, d) ==
    /\ Tracked(c) /\ Tracked(d)
    /\ args[c].nonce.kind # "number" /\ args[d].nonce.kind # "number"
    /\ reply[c].count.state = "fulfilled" /\ reply[d].count.state = "fulfilled"
    /\ countCalls[c] = countCalls[d]
    /\ reply[c].count.value = reply[d].count.value

\* C15: the wrapper imposes no mutual exclusion across submissions. A call can
\* start and can broadcast whatever the other calls are doing, and it
\* broadcasts with the nonce its own lookup returned; so two concurrent calls
\* whose lookups returned the same value both broadcast with that nonce, and
\* the wrapper neither rejects nor amends either of them.
C15_NoMutualExclusion ==
    \A c \in Calls :
        /\ (pc[c] = "idle" /\ \A d \in Earlier(c) : pc[d] # "idle") =>
                ENABLED (\E r \in ConcTrackedRequests : executeTrackedTransaction(c, r))
        /\ (pc[c] = "ready" /\ Tracked(c)) => ENABLED Execute(c)
        /\ (Tracked(c) /\ sent[c] # <<>> /\ args[c].nonce.kind # "number") =>
                sent[c][1].params.nonce = reply[c].count.value
        /\ (sent[c] # <<>> /\ outcome[c].state = "rejected") =>
                BroadcastFailed(c) /\ outcome[c].reason = reply[c].send.reason
        /\ \A d \in Calls \ {c} :
                (SameLookup(c, d) /\ pc[c] = "ready" /\ pc[d] \in {"ready", "awaitBroadcast"}) =>
                    /\ ENABLED Execute(c)
                    /\ ctx[c].intendedNonce = ctx[d].intendedNonce

C15_Witness ==
    /\ SameLookup("c1", "c2")
    /\ pc["c1"] = "awaitBroadcast"
    /\ pc["c2"] = "awaitBroadcast"
    /\ sent["c1"][1].params.nonce = sent["c2"][1].params.nonce
    /\ sent["c1"][1].params.account = sent["c2"][1].params.account

\* What a call's own arguments and the replies to its own requests determine.
OwnSender(c) ==
    IF Raw(c) THEN args[c].serializedTransaction.signer ELSE ExpectedSender(c)
OwnIntendedNonce(c) ==
    IF Raw(c) THEN args[c].serializedTransaction.nonce
    ELSE IF args[c].nonce.kind = "number" THEN args[c].nonce.num
    ELSE reply[c].count.value
OwnActualNonce(c) ==
    IF Tracked(c) /\ reply[c].getTx.state = "fulfilled"
    THEN reply[c].getTx.value
    ELSE OwnIntendedNonce(c)
OwnParams(c) ==
    IF Raw(c)
    THEN [serializedTransaction |-> args[c].serializedTransaction]
    ELSE ArgsWithNonce(RestArgs(args[c]), OwnIntendedNonce(c))
OwnRejection(c) ==
    IF reply[c].count.state = "rejected" THEN reply[c].count.reason
    ELSE IF reply[c].recover.state = "rejected" THEN reply[c].recover.reason
    ELSE IF reply[c].send.state = "rejected" THEN reply[c].send.reason
    ELSE IF Raw(c) THEN NoNonceError
    ELSE NoAccountError

\* C16: the wrapper keeps no mutable state between calls. In every interleaving
\* each call's requests to the collaborators, its returned value and its record
\* are what its own arguments, the client configuration and the replies to its
\* own requests determine; no other call changes them.
C16_NoSharedState ==
    \A c \in Calls :
        /\ countCalls[c] # <<>> =>
                countCalls[c] = <<[address |-> OwnSender(c),
                                   blockTag |-> NonceBlockTag(args[c].nonce)]>>
        /\ sent[c] # <<>> => sent[c] = <<[method |-> args[c].op, params |-> OwnParams(c)]>>
        /\ getTxCalls[c] # <<>> => getTxCalls[c] = <<[hash |-> UnderlyingHash(c)]>>
        /\ pc[c] = "rejected" => outcome[c] = Rejected(OwnRejection(c))
        /\ pc[c] = "resolved" =>
                /\ outcome[c] = Fulfilled(reply[c].send.value)
                /\ Record(c).txHash = UnderlyingHash(c)
                /\ Record(c).from = OwnSender(c)
                /\ Record(c).nonce = OwnActualNonce(c)
                /\ Record(c).chainId = walletClient.chain
                /\ Record(c).metadata =
                        (IF args[c].metadata.defined THEN args[c].metadata ELSE EmptyObject)
                /\ HasId(c) => Record(c).trackingId = args[c].metadata.id

C16_Witness ==
    /\ pc["c1"] = "resolved"
    /\ pc["c2"] = "resolved"
    /\ args["c1"] = args["c2"]
    /\ Tracked("c1")
    /\ args["c1"].nonce.kind = "undefined"
    /\ reply["c1"].count.value # reply["c2"].count.value
    /\ Record("c1").nonce # Record("c2").nonce
    /\ Record("c1").txHash # Record("c2").txHash

\* The identifier that the metadata and the local random source alone give.
LocalTrackingId(metadata, drawn) ==
    IF metadata.defined /\ metadata.hasId
    THEN metadata.id
    ELSE CHOOSE u \in drawn : TRUE

\* C17: the trackingId does not depend on network state. Whatever the
\* collaborators answered (fetched nonce, nonce match or mismatch, lookup
\* success or failure, which hash), the record's trackingId is the value
\* computed from the call's metadata and the local random source alone, both
\* of which are available before any I/O of the call.
C17_TrackingIdIgnoresNetwork ==
    \A c \in Calls :
        /\ Cardinality(usedUuids) <= 1
        /\ trackedTx[c] # <<>> =>
                /\ HasId(c) => usedUuids = {}
                /\ ~HasId(c) => Cardinality(usedUuids) = 1
                /\ Record(c).trackingId = LocalTrackingId(args[c].metadata, usedUuids)

C17_Witness ==
    \E c \in Calls :
        /\ pc[c] = "resolved"
        /\ ~HasId(c)
        /\ NonceMismatch(c)
        /\ args[c].nonce.kind = "undefined"
        /\ Record(c).trackingId \in usedUuids

RecoverRejected(c) == reply[c].recover.state = "rejected"

\* C18: for sendRawTransaction and sendRawTransactionSync, a payload that
\* carries no nonce makes the call reject with the decoding error, and a
\* rejected signature recovery makes the call reject with that error; in both
\* cases the relay broadcast is never invoked and no record is constructed.
C18_RelayFailsBeforeBroadcast ==
    \A c \in Calls :
        Raw(c) =>
            /\ ~args[c].serializedTransaction.hasNonce =>
                    /\ pc[c] = "rejected"
                    /\ outcome[c] = Rejected(NoNonceError)
                    /\ reply[c].recover = NotAsked
                    /\ sent[c] = <<>>
                    /\ trackedTx[c] = <<>>
            /\ RecoverRejected(c) =>
                    /\ pc[c] = "rejected"
                    /\ outcome[c] = Rejected(reply[c].recover.reason)
                    /\ reply[c].send = NotAsked
                    /\ sent[c] = <<>>
                    /\ trackedTx[c] = <<>>

C18_Witness ==
    \E c \in Calls :
        /\ args[c].op = "sendRawTransactionSync"
        /\ ~args[c].serializedTransaction.hasNonce
        /\ outcome[c] = Rejected(NoNonceError)

CountFailed(c) == reply[c].count.state = "rejected"

\* C19: the wrapper performs no retry or local recovery. In any single call
\* getTransactionCount, the underlying broadcast and getTransaction are each
\* invoked at most once, whatever errors the collaborators return: a failed
\* getTransactionCount or broadcast ends the call, a failed getTransaction is
\* not repeated.
C19_NoRetry ==
    \A c \in Calls :
        /\ Len(countCalls[c]) <= 1
        /\ Len(sent[c]) <= 1
        /\ Len(getTxCalls[c]) <= 1
        /\ CountFailed(c) => pc[c] = "rejected" /\ sent[c] = <<>>
        /\ BroadcastFailed(c) => pc[c] = "rejected" /\ Len(sent[c]) = 1
        /\ LookupFailed(c) => pc[c] \in {"verified", "resolved"} /\ Len(getTxCalls[c]) = 1

C19_Witness ==
    \E c \in Calls :
        /\ LookupFailed(c)
        /\ pc[c] = "resolved"
        /\ Len(countCalls[c]) = 1
        /\ Len(sent[c]) = 1
        /\ Len(getTxCalls[c]) = 1

\* C20: the record's request of a contract-call/transfer submission is the
\* original call arguments with only the metadata field excluded, so it retains
\* every other argument the caller passed, the nonce option included; for the
\* relay family it is the serialized payload.
C20_RequestKeepsAllButMetadata ==
    \A c \in Calls :
        trackedTx[c] # <<>> =>
            IF Raw(c)
            THEN Record(c).request = [serializedTransaction |-> args[c].serializedTransaction]
            ELSE /\ "metadata" \notin DOMAIN Record(c).request
                 /\ Record(c).request.account = args[c].account
                 /\ Record(c).request.data = args[c].data
                 /\ args[c].nonce.kind # "undefined" =>
                        /\ "nonce" \in DOMAIN Record(c).request
                        /\ Record(c).request.nonce = args[c].nonce

\* C21: the argument object handed to the underlying contract-call/transfer
\* operation is the caller's argument object with metadata removed and nonce set
\* to the resolved integer; the account is forwarded as the caller gave it
\* (absent stays absent, null stays null), every other field is unchanged and
\* none is added.
C21_ArgumentsPassThrough ==
    \A c \in Calls :
        (Tracked(c) /\ sent[c] # <<>>) =>
            LET forwarded == sent[c][1] IN
            /\ forwarded.method = args[c].op
            /\ DOMAIN forwarded.params = (DOMAIN args[c] \ {"op", "metadata", "serializedTransaction"})
            /\ forwarded.params.account = args[c].account
            /\ forwarded.params.data = args[c].data
            /\ forwarded.params.chain = args[c].chain
            /\ forwarded.params.nonce \in Nonces
            /\ forwarded.params.nonce = ctx[c].intendedNonce
            /\ args[c].nonce.kind = "number" => forwarded.params.nonce = args[c].nonce.num

C21_Witness ==
    \E c \in Calls :
        /\ args[c].op = "sendTransaction"
        /\ args[c].account = NullAccount
        /\ args[c].chain # NoChain
        /\ args[c].metadata.defined
        /\ args[c].nonce = StrNonce("latest")
        /\ reply[c].count = Fulfilled(1)
        /\ sent[c] # <<>>
        /\ sent[c][1].params.account = NullAccount

\* C22: when the call carries an account, the address used for the nonce lookup
\* and recorded as from is that account's address (the string itself, or the
\* object's address field), even if the wallet client has a different default
\* account; when the account is omitted or null, the wallet client's default
\* account address is used.
C22_SenderResolution ==
    \A c \in Calls :
        Tracked(c) =>
            LET sender ==
                    IF args[c].account.kind \in {"string", "object"}
                    THEN args[c].account.address
                    ELSE walletClient.account.address
            IN  /\ countCalls[c] # <<>> => countCalls[c][1].address = sender
                /\ trackedTx[c] # <<>> => Record(c).from = sender
                /\ pc[c] \notin {"idle", "rejected"} => ctx[c].from = sender /\ sender # NoAddress

C22_Witness ==
    \E c \in Calls :
        /\ Tracked(c)
        /\ args[c].account = ObjAccount("0xA2")
        /\ walletClient.account = ObjAccount("0xA1")
        /\ pc[c] = "resolved"
        /\ countCalls[c] # <<>>
        /\ countCalls[c][1].address = "0xA2"
        /\ Record(c).from = "0xA2"

\* C23: in every constructed record chainId is the wallet client's configured
\* chain id, or 1 when the wallet client has no chain configured, whatever
\* chain override the call carried; and metadata is the caller-supplied
\* metadata, or an empty object when none was supplied.
C23_ChainIdAndMetadata ==
    \A c \in Calls :
        \A i \in 1..Len(trackedTx[c]) :
            /\ walletClient.chain \in WalletChains \ {0} =>
                    trackedTx[c][i].chainId = walletClient.chain
            /\ walletClient.chain = 0 => trackedTx[c][i].chainId = 1
            /\ args[c].metadata.defined => trackedTx[c][i].metadata = args[c].metadata
            /\ ~args[c].metadata.defined => trackedTx[c][i].metadata = EmptyObject

C23_Witness ==
    \E c \in Calls :
        /\ trackedTx[c] # <<>>
        /\ args[c].chain = 10
        /\ walletClient.chain = 0
        /\ args[c].metadata = NoMetadata
        /\ Record(c).chainId = 1
        /\ Record(c).metadata = EmptyObject

\* C24: a contract-call/transfer call logs a warning if and only if the
\* post-broadcast lookup threw or returned a nonce different from the intended
\* one; at most one warning is logged per call, none when the nonces are
\* equal, and the relay operations never log one.
C24_WarningIffLookupTrouble ==
    \A c \in Calls :
        /\ warnings[c] \in {0, 1}
        /\ Raw(c) => warnings[c] = 0
        /\ Tracked(c) => (warnings[c] = 1 <=> (LookupFailed(c) \/ NonceMismatch(c)))
        /\ (Tracked(c) /\ reply[c].getTx = Fulfilled(ctx[c].intendedNonce)) => warnings[c] = 0

C24_Witness ==
    \E c \in Calls :
        /\ Tracked(c)
        /\ args[c].nonce = NumNonce(1)
        /\ reply[c].getTx = Fulfilled(0)
        /\ warnings[c] = 1
        /\ outcome[c].state = "fulfilled"

\* C25: for the contract-call/transfer operations, if the getTransactionCount
\* lookup rejects, the wrapper call rejects with that error, the underlying
\* broadcast and getTransaction are never invoked and no record is constructed.
C25_NonceLookupFailurePropagates ==
    \A c \in Calls :
        (Tracked(c) /\ reply[c].count.state = "rejected") =>
            /\ outcome[c] = Rejected(reply[c].count.reason)
            /\ reply[c].count.reason \in RpcErrors
            /\ pc[c] = "rejected"
            /\ sent[c] = <<>>
            /\ reply[c].send = NotAsked
            /\ getTxCalls[c] = <<>>
            /\ trackedTx[c] = <<>>
            /\ emitted[c] = 0

C25_Witness ==
    \E c \in Calls :
        /\ args[c].op = "writeContract"
        /\ args[c].nonce = StrNonce("latest")
        /\ reply[c].count = Rejected("RpcRequestError")
        /\ outcome[c] = Rejected("RpcRequestError")

\* A nonce argument that is neither a number nor a recognised tag nor absent.
Unrecognised(nonceOption) ==
    \/ nonceOption.kind = "null"
    \/ nonceOption.kind = "string" /\ nonceOption.str \notin BlockTags

\* C26: for the contract-call/transfer operations, a nonce argument that is
\* neither a number nor one of the five recognised tags (any other string,
\* null) is treated like an absent nonce: once the sender is resolved,
\* getTransactionCount is invoked with tag 'pending', and the unrecognised
\* value is forwarded neither to the chain client nor to the broadcast.
C26_UnrecognisedNonceIsAbsent ==
    \A c \in Calls :
        (Tracked(c) /\ Unrecognised(args[c].nonce) /\ ExpectedSender(c) # NoAddress) =>
            /\ countCalls[c] = <<[address |-> ExpectedSender(c), blockTag |-> "pending"]>>
            /\ countCalls[c][1].blockTag # args[c].nonce.str
            /\ sent[c] # <<>> =>
                    /\ reply[c].count.state = "fulfilled"
                    /\ sent[c][1].params.nonce = reply[c].count.value
                    /\ sent[c][1].params.nonce \in Nonces

C26_Witness ==
    \E c \in Calls :
        /\ Tracked(c)
        /\ args[c].nonce = StrNonce("newest")
        /\ countCalls[c] # <<>>
        /\ countCalls[c][1].blockTag = "pending"
        /\ sent[c] # <<>>
        /\ sent[c][1].params.nonce = 1

\* The call's own continuation can run now: it waits for nothing.
Runnable(c) ==
    \/ ENABLED Execute(c)
    \/ ENABLED ExecuteRaw(c)
    \/ ENABLED (\E u \in UuidPool : Complete(c, u))

Settled(c) == outcome[c].state \in {"fulfilled", "rejected"}

\* A pending call has one of these collaborator requests in flight, or is about
\* to take its next step.
PendingOnlyWhile(kinds) ==
    \A c \in Calls :
        outcome[c] = Pending => ((InFlight(c) \cap kinds) # {} \/ Runnable(c))

EventuallySettles == \A c \in Calls : (outcome[c] = Pending) ~> Settled(c)

\* C27 as stated: every started wrapper call eventually resolves or rejects, and
\* a wrapper call stays pending only while its nonce lookup, its broadcast or
\* its post-broadcast lookup is pending.
C27_PendingOnlyOnThreeCollaborators ==
    /\ EventuallySettles
    /\ []PendingOnlyWhile({"count", "send", "getTx"})

\* C27, amended: every started wrapper call eventually resolves or rejects, and
\* a wrapper call stays pending only while its nonce lookup, its signature
\* recovery (relay family), its broadcast or its post-broadcast lookup is pending.
C27_PendingOnlyOnCollaborators ==
    /\ EventuallySettles
    /\ []PendingOnlyWhile({"count", "recover", "send", "getTx"})

C27_Witness ==
    \E c \in Calls :
        /\ Raw(c)
        /\ outcome[c] = Pending
        /\ InFlight(c) = {"recover"}

\* The fetchTransactions calls whose scan has not settled.
Scanning == {i \in Fetches : scans[i].status = "scanning"}

\* C28: transaction list store: whenever loading is true at least one
\* fetchTransactions call is still in flight, and once every started call has
\* settled (with success or with error) loading is false, in any interleaving
\* of fetchTransactions, refresh and reset calls.
C28_LoadingImpliesFetchInFlight ==
    /\ state.loading => Scanning # {}
    /\ Scanning = {} => state.loading = FALSE

C28_Witness ==
    /\ Scanning = {}
    /\ state.loading = FALSE
    /\ \E i, j \in Fetches :
        /\ scans[i].status = "done" /\ scans[i].via = "refresh"
        /\ scans[j].status = "failed" /\ scans[j].via = "fetchTransactions"
    /\ state.error \notin {NoError, NoClientError}
    /\ state.transactions # <<>>

\* fetchTransactions was called in this step.
Called == \E i \in Fetches : scans[i].status = "idle" /\ scans'[i].status # "idle"
\* A fetchTransactions call found no public client in this step.
Refused == \E i \in Fetches : scans[i].status = "idle" /\ scans'[i].status = "refused"
\* A scan failed in this step.
Failed == \E i \in Fetches : scans[i].status = "scanning" /\ scans'[i].status = "failed"

\* C29: transaction list store: with no public client set, fetchTransactions
\* only sets error to 'Public client not available', leaves transactions,
\* loading and lastBlockNumber unchanged and starts no scan; when a scan fails,
\* the held transactions and lastBlockNumber are unchanged, error is set and
\* loading becomes false.
C29_FailuresKeepTheList ==
    [][/\ (currentPublicClient = NoClient /\ Called) =>
            /\ Refused
            /\ \A i \in Fetches : scans'[i].status = "scanning" => scans[i].status = "scanning"
            /\ state' = [state EXCEPT !.error = NoClientError]
            /\ state'.transactions = state.transactions
            /\ state'.loading = state.loading
            /\ state'.lastBlockNumber = state.lastBlockNumber
       /\ Failed =>
            /\ state'.transactions = state.transactions
            /\ state'.lastBlockNumber = state.lastBlockNumber
            /\ state'.error \notin {NoError, NoClientError}
            /\ state'.loading = FALSE
      ]_vars

C29_Witness ==
    /\ \E i \in Fetches : scans[i].status = "failed"
    /\ \E i \in Fetches : scans[i].status = "refused"
    /\ state.transactions # <<>>
    /\ state.lastBlockNumber # NoBlock
    /\ state.error = FetchFailedError
    /\ state.loading = FALSE

\* A call on an id that was not in the store was made in this step.
AbsentCall == lastCall' # lastCall /\ lastCall'.op \in {"remove", "onAction"} /\ ~lastCall'.present

NotificationState ==
    /\ \A i, j \in 1..Len(assigned) : i < j => assigned[i] < assigned[j]
    /\ \A i \in 1..Len(assigned) : assigned[i] > InitialLastId
    /\ assigned # <<>> => lastId = assigned[Len(assigned)]
    /\ \A i, j \in 1..Len(store) : i # j => store[i].id # store[j].id
    /\ IdsOf(store) \subseteq {assigned[i] : i \in 1..Len(assigned)}
    /\ \A id \in Ids :
            /\ Len(commandRuns[id]) <= 1
            /\ commandRuns[id] # <<>> =>
                    /\ commandRuns[id] = <<FALSE>>
                    /\ id \notin IdsOf(store)
                    /\ id \in {assigned[i] : i \in 1..Len(assigned)}

====
